---- MODULE Spec2Model ----
(***************************************************************************)
(* A model of src/rubiks_cube.py: the move value (RubiksAction), the       *)
(* rotation engine (RubiksCube) and move inference                         *)
(* (get_action_from_two_states).                                           *)
(*                                                                         *)
(* Arrays are functions over 0-based index ranges, as in numpy: a face     *)
(* grid is [0..dim-1 -> [0..dim-1 -> colour index]], a cube is             *)
(* [0..5 -> grid].  A move code is the sequence of its characters.         *)
(***************************************************************************)
EXTENDS Integers, Sequences, FiniteSets, TLC

VARIABLES dim, cube, counter, last, hist, moves, inf, made, built, inv

vars == <<dim, cube, counter, last, hist, moves, inf, made, built, inv>>

(***************************************************************************)
(* Bounds of the model.                                                    *)
(***************************************************************************)
\* grid sizes explored: dim ranges over 1..MaxDim
MaxDim == 3
\* quarter turns one engine is given with a free choice of move
MaxMoves == 2
\* beyond MaxMoves a step may only undo the last free move, or repeat the
\* previous step's move up to a run of MaxRun equal moves (SpecTurns)
MaxRun == 4
\* largest n passed to shuffle_cube(n)
MaxShuffle == 2
\* the n used by shuffle_cube() when called without argument; the source's
\* default is 100 (line 173), scaled down so the random moves can be enumerated
ShuffleDefault == 1
\* longest str passed to RubiksAction(action)
MaxCodeLen == 3

Dims == 1..MaxDim

(***************************************************************************)
(* rubiks_cube_config: the configuration module the engine imports.        *)
(* Face k of the cube array is sides[k+1] and is drawn by render() on the  *)
(* plane x=dim, x=0, z=dim, z=0, y=0, y=dim for k = 0..5; the adjacency    *)
(* table below is the one that makes a move the geometric quarter turn of  *)
(* that layout.  Each neighbour list is a closed cycle: the first          *)
(* neighbour is repeated at the end, so that the four consecutive pairs    *)
(* walked by _rotate cover the whole cycle.                                *)
(***************************************************************************)
sides == <<"F", "B", "U", "D", "L", "R">>

directions == <<"d", "i">>

colors == <<"red", "orange", "white", "yellow", "green", "blue">>

connexions ==
  [ F |-> [ sides |-> <<"U", "L", "D", "R", "U">>,
            edges |-> <<"r", "r", "r", "l", "r">>,
            inversions |-> { <<"l", "r">>, <<"r", "l">> } ],
    B |-> [ sides |-> <<"U", "R", "D", "L", "U">>,
            edges |-> <<"l", "r", "l", "l", "l">>,
            inversions |-> { <<"l", "r">>, <<"r", "l">> } ],
    U |-> [ sides |-> <<"F", "R", "B", "L", "F">>,
            edges |-> <<"u", "u", "u", "u", "u">>,
            inversions |-> {} ],
    D |-> [ sides |-> <<"F", "L", "B", "R", "F">>,
            edges |-> <<"d", "d", "d", "d", "d">>,
            inversions |-> {} ],
    L |-> [ sides |-> <<"F", "U", "B", "D", "F">>,
            edges |-> <<"l", "d", "r", "u", "l">>,
            inversions |-> { <<"d", "r">>, <<"r", "d">>, <<"l", "u">>, <<"u", "l">> } ],
    R |-> [ sides |-> <<"F", "D", "B", "U", "F">>,
            edges |-> <<"r", "d", "l", "u", "r">>,
            inversions |-> { <<"d", "r">>, <<"r", "d">>, <<"l", "u">>, <<"u", "l">> } ] ]

(***************************************************************************)
(* Helpers for sequences and index maps.                                   *)
(***************************************************************************)
Range(s) == { s[k] : k \in 1..Len(s) }

\* python's s[::-1] on a list or tuple
ReverseSeq(s) == [ k \in 1..Len(s) |-> s[Len(s) + 1 - k] ]

\* {x: index for index, x in enumerate(s)}[x]
IndexOf(s, x) == (CHOOSE k \in 1..Len(s) : s[k] = x) - 1

\* self.index_sides
index_sides(side) == IndexOf(sides, side)

\* self.index_colors.values()
ColorIndices == 0..(Len(colors) - 1)

(***************************************************************************)
(* RubiksAction                                                            *)
(***************************************************************************)
\* the value None of an object's action attribute
NoAction == [side |-> "None", direction |-> "None"]

\* namedtuple('Action', 'side direction')(*tuple(action))
Action(side, direction) == [side |-> side, direction |-> direction]

\* self.actions of RubiksCube: product(sides, directions), face-major
actions ==
  [ k \in 1..(Len(sides) * Len(directions)) |->
      <<sides[((k - 1) \div Len(directions)) + 1],
        directions[((k - 1) % Len(directions)) + 1]>> ]

\* the twelve parsed moves
LegalActions == { Action(s, d) : s \in Range(sides), d \in Range(directions) }

\* _load_action without the test of the direction character
_load_action_loose(action) ==
  IF /\ action.type = "str"
     /\ Len(action.chars) = 2
     /\ action.chars[1] \in Range(sides)
  THEN Action(action.chars[1], action.chars[2])
  ELSE NoAction

\* RubiksAction._load_action: the parsed move, or None after printing
\* 'Unknown action!'.  A code is [type, chars]: its python type and, for a
\* str, its characters.
_load_action(action) ==
  IF /\ action.type = "str"
     /\ Len(action.chars) = 2
     /\ action.chars[1] \in Range(sides)
     /\ action.chars[2] \in Range(directions)
  THEN Action(action.chars[1], action.chars[2])
  ELSE NoAction

\* RubiksAction._random_action: the moves random.choice can produce
_random_action == LegalActions

\* RubiksAction.__init__ for action is not None: the object's __dict__
RubiksAction(action) ==
  [sides |-> sides, directions |-> directions, action |-> _load_action(action)]

\* RubiksAction.__init__ for action=None: the objects it can produce
RandomRubiksActions ==
  { [sides |-> sides, directions |-> directions, action |-> a] : a \in _random_action }

\* RubiksAction.__eq__ between two RubiksAction objects
ActionEq(a, b) == a = b

\* get_inverse_action with the direction test never flipping 'd'
get_inverse_action_same(obj) ==
  LET inverse_side == obj.action.side
      inverse_direction == IF obj.action.direction = "i" THEN "d" ELSE "d"
  IN  RubiksAction([type |-> "str", chars |-> <<inverse_side, inverse_direction>>])

\* get_inverse_action answering with the opposite face
get_inverse_action_face(obj) ==
  LET inverse_side == sides[IF index_sides(obj.action.side) % 2 = 0
                            THEN index_sides(obj.action.side) + 2
                            ELSE index_sides(obj.action.side)]
      inverse_direction == IF obj.action.direction = "i" THEN "d" ELSE "i"
  IN  RubiksAction([type |-> "str", chars |-> <<inverse_side, inverse_direction>>])

\* RubiksAction.get_inverse_action
get_inverse_action(obj) ==
  LET inverse_side == obj.action.side
      inverse_direction == IF obj.action.direction = "i" THEN "d" ELSE "i"
  IN  RubiksAction([type |-> "str", chars |-> <<inverse_side, inverse_direction>>])

\* a str code
Str(chars) == [type |-> "str", chars |-> chars]

(***************************************************************************)
(* RubiksCube: arrays                                                      *)
(***************************************************************************)
\* the side length of a square grid
Size(matrix) == Cardinality(DOMAIN matrix)

\* np.rot90(matrix, k) for k = 1 and k = 3
Rot90(matrix, k) ==
  LET n == Size(matrix)
  IN  IF k = 1
      THEN [i \in 0..(n - 1) |-> [j \in 0..(n - 1) |-> matrix[j][n - 1 - i]]]
      ELSE [i \in 0..(n - 1) |-> [j \in 0..(n - 1) |-> matrix[n - 1 - j][i]]]

\* _rotate_helper with the two values of k exchanged
_rotate_helper_swapped(matrix, direction) ==
  IF direction = "d" THEN Rot90(matrix, 3) ELSE Rot90(matrix, 1)

\* RubiksCube._rotate_helper
_rotate_helper(matrix, direction) ==
  IF direction = "d" THEN Rot90(matrix, 1) ELSE Rot90(matrix, 3)

\* _construct_cube leaving every face at colour 0 (np.zeros, no fill)
_construct_cube_zeros(n) ==
  [index \in ColorIndices |-> [r \in 0..(n - 1) |-> [c \in 0..(n - 1) |-> 0]]]

\* RubiksCube._construct_cube: face index filled with colour index
_construct_cube(n) ==
  [index \in ColorIndices |-> [r \in 0..(n - 1) |-> [c \in 0..(n - 1) |-> index]]]

\* _edge_to_slice: the cells of an edge, in slice order
_edge_to_slice(edge, n) ==
  [k \in 0..(n - 1) |->
     IF edge = "r" THEN <<k, n - 1>>
     ELSE IF edge = "l" THEN <<k, 0>>
     ELSE IF edge = "u" THEN <<0, k>>
     ELSE <<n - 1, k>>]

\* matrix[_edge_to_slice(edge)]
GetEdge(matrix, edge) ==
  LET n == Size(matrix)
      sl == _edge_to_slice(edge, n)
  IN  [k \in 0..(n - 1) |-> matrix[sl[k][1]][sl[k][2]]]

\* the assignment to a slice with index 0 where _edge_to_slice has index -1
SetEdge_first(matrix, edge, arr) ==
  LET n == Size(matrix)
  IN  [r \in 0..(n - 1) |-> [c \in 0..(n - 1) |->
         IF edge = "r" THEN (IF c = 0 THEN arr[r] ELSE matrix[r][c])
         ELSE IF edge = "l" THEN (IF c = 0 THEN arr[r] ELSE matrix[r][c])
         ELSE IF edge = "u" THEN (IF r = 0 THEN arr[c] ELSE matrix[r][c])
         ELSE (IF r = 0 THEN arr[c] ELSE matrix[r][c])]]

\* matrix[_edge_to_slice(edge)] = arr: the cell of the slice at position k
\* takes arr[k], every other cell keeps its value
SetEdge(matrix, edge, arr) ==
  LET n == Size(matrix)
  IN  [r \in 0..(n - 1) |-> [c \in 0..(n - 1) |->
         IF edge = "r" THEN (IF c = n - 1 THEN arr[r] ELSE matrix[r][c])
         ELSE IF edge = "l" THEN (IF c = 0 THEN arr[r] ELSE matrix[r][c])
         ELSE IF edge = "u" THEN (IF r = 0 THEN arr[c] ELSE matrix[r][c])
         ELSE (IF r = n - 1 THEN arr[c] ELSE matrix[r][c])]]

\* arr[::-1] on a one-dimensional array
ReverseArr(arr) ==
  LET n == Cardinality(DOMAIN arr)
  IN  [k \in 0..(n - 1) |-> arr[n - 1 - k]]

\* previous_array = None
NoneArray == [k \in {} |-> 0]

\* _edge_translation without the .copy() of line 142: the returned array is
\* a view of b's strip and so holds what was just written into it
_edge_translation_view(side, c, a, b, edge_a, edge_b, input_array) ==
  LET edge_array_a0 == IF DOMAIN input_array = {} THEN GetEdge(c[a], edge_a)
                       ELSE input_array
      edge_array_a == IF <<edge_a, edge_b>> \in connexions[side].inversions
                      THEN ReverseArr(edge_array_a0) ELSE edge_array_a0
      written == [c EXCEPT ![b] = SetEdge(c[b], edge_b, edge_array_a)]
  IN  [cube |-> written, array |-> GetEdge(written[b], edge_b)]

\* _edge_translation without the reversal of lines 140-141
_edge_translation_straight(side, c, a, b, edge_a, edge_b, input_array) ==
  LET edge_array_a == IF DOMAIN input_array = {} THEN GetEdge(c[a], edge_a)
                      ELSE input_array
      edge_array_b == GetEdge(c[b], edge_b)
  IN  [cube |-> [c EXCEPT ![b] = SetEdge(c[b], edge_b, edge_array_a)],
       array |-> edge_array_b]

\* RubiksCube._edge_translation on the faces a and b of cube c: the cube after
\* the copy and the returned array (b's evicted strip)
_edge_translation(side, c, a, b, edge_a, edge_b, input_array) ==
  LET edge_array_a0 == IF DOMAIN input_array = {} THEN GetEdge(c[a], edge_a)
                       ELSE input_array
      edge_array_a == IF <<edge_a, edge_b>> \in connexions[side].inversions
                      THEN ReverseArr(edge_array_a0) ELSE edge_array_a0
      edge_array_b == GetEdge(c[b], edge_b)
  IN  [cube |-> [c EXCEPT ![b] = SetEdge(c[b], edge_b, edge_array_a)],
       array |-> edge_array_b]

\* the loop of _rotate stopping one pair early (range(len(...) - 2))
RECURSIVE TranslateLoop_short(_, _, _, _, _, _)
TranslateLoop_short(side, c, connected_sides, connected_edges, idx, previous_array) ==
  IF idx > Len(connected_sides) - 2 THEN c
  ELSE LET t == _edge_translation(side, c,
                                  index_sides(connected_sides[idx]),
                                  index_sides(connected_sides[idx + 1]),
                                  connected_edges[idx], connected_edges[idx + 1],
                                  previous_array)
       IN  TranslateLoop_short(side, t.cube, connected_sides, connected_edges,
                               idx + 1, t.array)

\* the loop of _rotate (lines 157-164) from index idx on
RECURSIVE TranslateLoop(_, _, _, _, _, _)
TranslateLoop(side, c, connected_sides, connected_edges, idx, previous_array) ==
  IF idx > Len(connected_sides) - 1 THEN c
  ELSE LET t == _edge_translation(side, c,
                                  index_sides(connected_sides[idx]),
                                  index_sides(connected_sides[idx + 1]),
                                  connected_edges[idx], connected_edges[idx + 1],
                                  previous_array)
       IN  TranslateLoop(side, t.cube, connected_sides, connected_edges,
                         idx + 1, t.array)

\* _rotate with the test of line 153 never true and every turn made as 'd'
_rotate_direct(c, action) ==
  LET side == action.side
      connected_sides == connexions[side].sides
      connected_edges == connexions[side].edges
      turned == [c EXCEPT ![index_sides(side)] =
                   _rotate_helper(c[index_sides(side)], "d")]
  IN  TranslateLoop(side, turned, connected_sides, connected_edges, 1, NoneArray)

\* RubiksCube._rotate on the cube array (lines 147-164)
_rotate(c, action) ==
  LET side == action.side
      direction == action.direction
      connected_sides == IF direction = "i"
                         THEN ReverseSeq(connexions[side].sides)
                         ELSE connexions[side].sides
      connected_edges == IF direction = "i"
                         THEN ReverseSeq(connexions[side].edges)
                         ELSE connexions[side].edges
      turned == [c EXCEPT ![index_sides(side)] =
                   _rotate_helper(c[index_sides(side)], direction)]
  IN  TranslateLoop(side, turned, connected_sides, connected_edges, 1, NoneArray)

\* _get_reward with np.any in place of the outer np.all
_get_reward_any(c) ==
  LET resolved == \E i \in ColorIndices :
                    \A r \in DOMAIN c[i] : \A col \in DOMAIN c[i][r] : c[i][r][col] = i
  IN  IF resolved THEN 1 ELSE -1

\* an engine whose cube attribute was never assigned
NoCube == [k \in {} |-> 0]

\* the default of the dim parameter of RubiksCube.__init__
DefaultDim == 3

\* cube.shape of a three-dimensional array
Shape(c) == <<Cardinality(DOMAIN c), Size(c[0]), Size(c[0][0])>>

\* np.argmax of a one-dimensional array: the first index of its maximum
ArgMax(v) ==
  CHOOSE k \in DOMAIN v :
    /\ \A j \in DOMAIN v : v[j] <= v[k]
    /\ \A j \in DOMAIN v : j < k => v[j] < v[k]

\* RubiksCube.from_one_hot_cube: np.argmax(cube, axis=-1)
from_one_hot_cube(c) ==
  [f \in DOMAIN c |-> [r \in DOMAIN c[f] |-> [col \in DOMAIN c[f][r] |->
     ArgMax(c[f][r][col])]]]

\* RubiksCube.to_one_hot_cube: (np.arange(len(colors)) == cube[..., None]).astype(int)
to_one_hot_cube(c) ==
  [f \in DOMAIN c |-> [r \in DOMAIN c[f] |-> [col \in DOMAIN c[f][r] |->
     [k \in ColorIndices |-> IF c[f][r][col] = k THEN 1 ELSE 0]]]]

\* a value passed as cube: its python type, its shape and its cells
Array(shape, data) == [type |-> "ndarray", shape |-> shape, data |-> data]

\* the cube attribute after lines 55-67 of RubiksCube.__init__ for a supplied
\* value (cube is not None): a copy of the array, the decoded one-hot array,
\* or nothing ('Incorrect cube format!' is printed, self.cube is not assigned)
InitCube(d, arg) ==
  IF arg.type = "ndarray" /\ arg.shape = <<Len(colors), d, d>>
  THEN arg.data
  ELSE IF arg.type = "ndarray" /\ arg.shape = <<Len(colors), d, d, Len(colors)>>
       THEN from_one_hot_cube(arg.data)
       ELSE NoCube

\* The arrays get_action_from_two_states works with live in a memory: a
\* function from the names of the arrays to their cells.  An attribute that
\* holds an array holds its name, so that two attributes can hold one array.
ArrayNames == {"state_1", "state_2", "rubiks_1", "rubiks_1_copy"}

\* the cube attribute of an engine whose cube was never assigned
NoArray == "none"

\* the memory holding the two arrays passed to get_action_from_two_states
Memory(state_1, state_2) ==
  [a \in ArrayNames |-> IF a = "state_1" THEN state_1
                        ELSE IF a = "state_2" THEN state_2 ELSE NoCube]

\* RubiksCube.__init__ with self.cube = cube in place of cube.copy() (line 61)
RubiksCubeOf_alias(d, mem, cube_arg, new) ==
  IF Shape(mem[cube_arg]) = <<Len(colors), d, d>>
  THEN [dim |-> d, counter |-> 0, cube |-> cube_arg, mem |-> mem]
  ELSE [dim |-> d, counter |-> 0, cube |-> NoArray, mem |-> mem]

\* RubiksCube.__init__ with a three-dimensional array as cube and shuffle=False:
\* the attributes dim, counter and cube of the new object, and the memory.
\* The array is copied into the new array when its shape is (6, dim, dim); its
\* shape has three entries, so the one-hot test of line 62 fails, 'Incorrect
\* cube format!' is printed and self.cube is left unassigned.
RubiksCubeOf(d, mem, cube_arg, new) ==
  IF Shape(mem[cube_arg]) = <<Len(colors), d, d>>
  THEN [dim |-> d, counter |-> 0, cube |-> new,
        mem |-> [mem EXCEPT ![new] = mem[cube_arg]]]
  ELSE [dim |-> d, counter |-> 0, cube |-> NoArray, mem |-> mem]

\* RubiksCube._get_reward
_get_reward(c) ==
  LET resolved == \A i \in ColorIndices :
                    \A r \in DOMAIN c[i] : \A col \in DOMAIN c[i][r] : c[i][r][col] = i
  IN  IF resolved THEN 1 ELSE -1

\* RubiksCube.is_resolved
is_resolved(c) == IF _get_reward(c) = 1 THEN TRUE ELSE FALSE

\* the loop of shuffle_cube on the cube array: the moves ms[from..] applied in turn
RECURSIVE ShuffleLoop(_, _, _)
ShuffleLoop(c, ms, from) ==
  IF from > Len(ms) THEN c
  ELSE ShuffleLoop(_rotate(c, ms[from]), ms, from + 1)

\* the value None returned by get_action_from_two_states
NoMove == [sides |-> <<>>, directions |-> <<>>, action |-> NoAction]

\* the loop of get_action_from_two_states (lines 99-105) from the k-th action on
\* in memory mem, with rubiks_1.cube naming an array of it: what is raised
\* or returned, and the memory then.  The step of line 102 turns the array
\* rubiks_1_copy.cube names, in place.
RECURSIVE InferLoop(_, _, _)
InferLoop(mem, rubiks_1, k) ==
  IF k > Len(actions)
  THEN [raised |-> "none", found |-> FALSE, move |-> NoMove, mem |-> mem]
  ELSE LET rubiks_1_copy == RubiksCubeOf(DefaultDim, mem, rubiks_1.cube, "rubiks_1_copy")
           rubiks_action == RubiksAction([type |-> "str", chars |-> actions[k]])
       IN  IF rubiks_1_copy.cube = NoArray
           THEN [raised |-> "AttributeError", found |-> FALSE, move |-> NoMove,
                 mem |-> rubiks_1_copy.mem]
           ELSE LET stepped == [rubiks_1_copy.mem EXCEPT ![rubiks_1_copy.cube] =
                                  _rotate(@, rubiks_action.action)]
                    new_state == stepped[rubiks_1_copy.cube]
                IN  IF new_state = stepped["state_2"]
                    THEN [raised |-> "none", found |-> TRUE, move |-> rubiks_action,
                          mem |-> stepped]
                    ELSE InferLoop(stepped, rubiks_1, k + 1)

\* RubiksCube.get_action_from_two_states for two three-dimensional arrays:
\* what is raised or returned, and the arrays state_1, state_2 and
\* rubiks_1.cube after the call
get_action_from_two_states(state_1, state_2) ==
  LET rubiks_1 == RubiksCubeOf(Shape(state_1)[3], Memory(state_1, state_2),
                               "state_1", "rubiks_1")
      r == InferLoop(rubiks_1.mem, rubiks_1, 1)
  IN  [raised |-> r.raised, found |-> r.found, move |-> r.move,
       state_1 |-> r.mem["state_1"], state_2 |-> r.mem["state_2"],
       rubiks_1 |-> IF rubiks_1.cube = NoArray THEN NoCube
                    ELSE r.mem[rubiks_1.cube]]

(***************************************************************************)
(* The engine as a state machine.                                          *)
(*   dim, cube, counter  the RubiksCube object                             *)
(*   last                the last call and what it returned                *)
(*   hist                the successful step calls since the last shuffle, *)
(*                       reset or construction: move and cube before it    *)
(*   moves               quarter turns applied so far (bounds the run)     *)
(*   inf                 the last call of get_action_from_two_states       *)
(*   made                the last construction of a RubiksAction           *)
(*   built               the last construction of a RubiksCube from a      *)
(*                       supplied state                                    *)
(*   inv                 the last call of get_inverse_action               *)
(***************************************************************************)
Outcome(op, raised, reward, done, n, shuffle) ==
  [op |-> op, raised |-> raised, reward |-> reward, done |-> done,
   n |-> n, shuffle |-> shuffle]

\* no call of get_action_from_two_states yet
NoInference ==
  [called |-> FALSE, state_1 |-> NoCube, state_2 |-> NoCube, between |-> <<>>,
   raised |-> "none", found |-> FALSE, move |-> NoMove,
   after_1 |-> NoCube, after_2 |-> NoCube, rubiks_1 |-> NoCube]

\* no RubiksAction constructed yet
NothingMade ==
  [called |-> FALSE, code |-> [type |-> "NoneType", chars |-> <<>>],
   raised |-> "none", printed |-> FALSE, object |-> NoMove]

\* no RubiksCube constructed from a supplied state yet
NothingBuilt ==
  [called |-> FALSE, dim |-> 0, type |-> "NoneType", shape |-> <<>>,
   shuffle |-> FALSE, raised |-> "none", printed |-> FALSE]

\* no call of get_inverse_action yet
NoInverse == [called |-> FALSE, of |-> NoMove, object |-> NoMove, twice |-> NoMove]

\* RubiksCube(dim=d): cube=None, shuffle=False
Init ==
  /\ dim \in Dims
  /\ cube = _construct_cube(dim)
  /\ counter = 0
  /\ last = Outcome("init", FALSE, 0, FALSE, -1, FALSE)
  /\ hist = <<>>
  /\ moves = 0
  /\ inf = NoInference
  /\ made = NothingMade
  /\ built = NothingBuilt
  /\ inv = NoInverse

\* the legal move codes, as str
LegalCodes == { Str(actions[k]) : k \in 1..Len(actions) }

\* codes that fail _load_action
BadCodes ==
  { Str(<<"U">>), Str(<<"X", "d">>), Str(<<"U", "x">>), Str(<<"U", "d", "d">>),
    [type |-> "int", chars |-> <<>>] }

\* the number of equal moves at the end of a history
RECURSIVE RunLength(_)
RunLength(h) ==
  IF Len(h) = 0 THEN 0
  ELSE IF Len(h) = 1 THEN 1
  ELSE IF h[Len(h)].move = h[Len(h) - 1].move
       THEN 1 + RunLength(SubSeq(h, 1, Len(h) - 1))
       ELSE 1

\* step(action) with _rotate lacking the counter increment of line 165
StepMove_uncounted(action) ==
  /\ action.action # NoAction
  /\ cube' = _rotate(cube, action.action)
  /\ counter' = counter
  /\ last' = Outcome("step", FALSE, _get_reward(cube'), is_resolved(cube'), -1, FALSE)
  /\ hist' = Append(hist, [move |-> action, pre |-> cube])
  /\ moves' = moves + 1
  /\ UNCHANGED <<dim, inf, made, built, inv>>

\* step(action) for a move object whose action is set (lines 190-196, with
\* _rotate's counter increment of line 165)
StepMove(action) ==
  /\ action.action # NoAction
  /\ cube' = _rotate(cube, action.action)
  /\ counter' = counter + 1
  /\ last' = Outcome("step", FALSE, _get_reward(cube'), is_resolved(cube'), -1, FALSE)
  /\ hist' = Append(hist, [move |-> action, pre |-> cube])
  /\ moves' = moves + 1
  /\ UNCHANGED <<dim, inf, made, built, inv>>

\* step(action) with a freely chosen legal move
Step ==
  /\ moves < MaxMoves
  /\ \E code \in LegalCodes : StepMove(RubiksAction(code))

\* step(action) beyond MaxMoves: the undoing of the last free move, or one
\* more turn of the current run of equal moves
StepAgain ==
  /\ moves >= MaxMoves
  /\ hist # <<>>
  /\ \E code \in LegalCodes :
       LET action == RubiksAction(code)
       IN  /\ \/ /\ moves = MaxMoves
                 /\ action = get_inverse_action(hist[Len(hist)].move)
              \/ /\ hist[Len(hist)].move = action
                 /\ RunLength(hist) < MaxRun
           /\ StepMove(action)

\* isinstance(action, RubiksAction): the objects RubiksAction builds
IsRubiksAction(action) == DOMAIN action = {"sides", "directions", "action"}

\* the values passed to step that fail its assertion: move objects built from
\* codes that do not load, a legal code passed as a bare str, and None
RejectedArguments ==
  { RubiksAction(code) : code \in BadCodes }
    \cup { Str(<<"U", "d">>), [type |-> "NoneType", chars |-> <<>>] }

\* step(action) counting the call before the assertion of line 191
StepRejected_counted ==
  /\ \E action \in RejectedArguments :
       /\ ~ (IsRubiksAction(action) /\ action.action # NoAction)
       /\ last' = Outcome("step", TRUE, 0, FALSE, -1, FALSE)
  /\ counter' = counter + 1
  /\ UNCHANGED <<dim, cube, hist, moves, inf, made, built, inv>>

\* step(action) with a value that is not a move object, or with a move
\* object whose action is None: the assertion of line 191 fails
StepRejected ==
  /\ \E action \in RejectedArguments :
       /\ ~ (IsRubiksAction(action) /\ action.action # NoAction)
       /\ last' = Outcome("step", TRUE, 0, FALSE, -1, FALSE)
  /\ UNCHANGED <<dim, cube, counter, hist, moves, inf, made, built, inv>>

\* shuffle_cube(n)
ShuffleCube ==
  /\ \E n \in 0..MaxShuffle :
       /\ moves + n <= MaxMoves
       /\ \E ms \in [1..n -> _random_action] :
            /\ cube' = ShuffleLoop(cube, ms, 1)
            /\ counter' = IF n > 0 THEN 0 ELSE counter
            /\ last' = Outcome("shuffle_cube", FALSE, 0, FALSE, n, FALSE)
            /\ moves' = moves + n
  /\ hist' = <<>>
  /\ UNCHANGED <<dim, inf, made, built, inv>>

\* reset(shuffle)
Reset ==
  /\ \E shuffle \in BOOLEAN :
       LET n == IF shuffle THEN ShuffleDefault ELSE 0
       IN  /\ moves + n <= MaxMoves
           /\ \E ms \in [1..n -> _random_action] :
                /\ cube' = ShuffleLoop(_construct_cube(dim), ms, 1)
                /\ counter' = IF n > 0 THEN 0 ELSE counter
                /\ last' = Outcome("reset", FALSE, 0, FALSE, n, shuffle)
                /\ moves' = moves + n
  /\ hist' = <<>>
  /\ UNCHANGED <<dim, inf, made, built, inv>>

\* the cubes supplied to the constructor: the solved cube of side n and the
\* cubes one move away from it
SampleCubes(n) ==
  {_construct_cube(n)} \cup { _rotate(_construct_cube(n), m) : m \in LegalActions }

\* the values supplied as cube: arrays of colour indices, their one-hot
\* encodings, and a list
SuppliedStates ==
  UNION { { Array(<<Len(colors), n, n>>, c) : c \in SampleCubes(n) } : n \in Dims }
    \cup UNION { { Array(<<Len(colors), n, n, Len(colors)>>, to_one_hot_cube(c)) :
                      c \in SampleCubes(n) } : n \in Dims }
    \cup { [type |-> "list", shape |-> <<>>, data |-> NoCube] }

\* RubiksCube(dim=d, cube=arg, shuffle=shuffle) with a supplied value (lines
\* 43-69), the new object taking the place of the engine.  Without a cube
\* attribute the shuffle of line 69 raises AttributeError in _rotate and no
\* object is returned; without shuffle the object is returned as it is.
\* The engine of a behaviour is constructed from a supplied state once.
Construct ==
  /\ ~ built.called
  /\ \E d \in Dims, arg \in SuppliedStates, shuffle \in BOOLEAN :
    LET c0 == InitCube(d, arg)
        n == IF shuffle THEN ShuffleDefault ELSE 0
        call(raised) == [called |-> TRUE, dim |-> d, type |-> arg.type,
                         shape |-> arg.shape, shuffle |-> shuffle,
                         raised |-> raised, printed |-> (c0 = NoCube)]
    IN  IF c0 = NoCube /\ n > 0
        THEN /\ built' = call("AttributeError")
             /\ UNCHANGED <<dim, cube, counter, last, hist, moves, inf, made, inv>>
        ELSE /\ built' = call("none")
             /\ dim' = d
             /\ \E ms \in [1..n -> _random_action] :
                  cube' = IF c0 = NoCube THEN NoCube ELSE ShuffleLoop(c0, ms, 1)
             /\ counter' = 0
             /\ last' = Outcome("init", FALSE, 0, FALSE, n, shuffle)
             /\ hist' = <<>>
             /\ moves' = n
             /\ UNCHANGED <<inf, made, inv>>

\* the construction of engines from supplied states
SpecConstruct == Init /\ [][Construct]_vars

Next == Step \/ StepRejected \/ ShuffleCube \/ Reset

\* the engine under any calls
Spec == Init /\ [][Next]_vars

\* get_action_from_two_states(state_1, state_2) on copies of two states of the
\* engine: state_1 is the cube before the last k steps, state_2 the cube now;
\* after_1, after_2 and rubiks_1 are the arrays state_1, state_2 and
\* rubiks_1.cube when the call is over
Infer ==
  /\ \E k \in 0..Len(hist) :
       LET state_1 == IF k = 0 THEN cube ELSE hist[Len(hist) + 1 - k].pre
           state_2 == cube
           r == get_action_from_two_states(state_1, state_2)
       IN  inf' = [called |-> TRUE, state_1 |-> state_1, state_2 |-> state_2,
                   between |-> [j \in 1..k |-> hist[Len(hist) - k + j].move],
                   raised |-> r.raised, found |-> r.found, move |-> r.move,
                   after_1 |-> r.state_1, after_2 |-> r.state_2,
                   rubiks_1 |-> r.rubiks_1]
  /\ UNCHANGED <<dim, cube, counter, last, hist, moves, made, built, inv>>

NextInfer == Step \/ Infer

\* step calls and move inference between the states they produce
SpecInfer == Init /\ [][NextInfer]_vars

\* the engine under freely chosen step calls only
SpecStep == Init /\ [][Step]_vars

\* a step call before any inference
StepFirst == ~ inf.called /\ Step

\* the one inference of a behaviour
InferOnce == ~ inf.called /\ Infer

NextProbe == StepFirst \/ InferOnce

\* step calls, then one move inference between two of the states they produced
SpecProbe == Init /\ [][NextProbe]_vars

\* the characters codes are made of: two face symbols, the direction symbols
\* and a character that is neither
Alphabet == {"F", "U"} \cup Range(directions) \cup {"X"}

\* the values passed as action: every str up to MaxCodeLen characters, an int
\* and a list of two characters
Codes ==
  { Str(chars) : chars \in UNION { [1..n -> Alphabet] : n \in 0..MaxCodeLen } }
    \cup { [type |-> "int", chars |-> <<>>], [type |-> "list", chars |-> <<"U", "d">>] }

\* RubiksAction(action) with action is not None (lines 11-14, 24-30): no
\* exception is raised; a failed _load_action prints and leaves action None
NewAction ==
  /\ \E code \in Codes :
       LET object == RubiksAction(code)
       IN  made' = [called |-> TRUE, code |-> code, raised |-> "none",
                    printed |-> (object.action = NoAction), object |-> object]
  /\ UNCHANGED <<dim, cube, counter, last, hist, moves, inf, built, inv>>

\* RubiksAction() : a random legal move
NewRandomAction ==
  /\ \E object \in RandomRubiksActions :
       made' = [called |-> TRUE, code |-> [type |-> "NoneType", chars |-> <<>>],
                raised |-> "none", printed |-> FALSE, object |-> object]
  /\ UNCHANGED <<dim, cube, counter, last, hist, moves, inf, built, inv>>

NextAction == NewAction \/ NewRandomAction

\* the construction of moves
SpecAction == Init /\ [][NextAction]_vars

\* made.object.get_inverse_action() on a move that was loaded (lines 36-39),
\* and get_inverse_action() of its result
InverseAction ==
  /\ made.called
  /\ made.object.action # NoAction
  /\ inv' = [called |-> TRUE, of |-> made.object,
             object |-> get_inverse_action(made.object),
             twice |-> get_inverse_action(get_inverse_action(made.object))]
  /\ UNCHANGED <<dim, cube, counter, last, hist, moves, inf, made, built>>

NextInverse == NewRandomAction \/ InverseAction

\* random moves and their inverses
SpecInverse == Init /\ [][NextInverse]_vars

NextTurns == Step \/ StepAgain

\* the engine under step calls only, with runs of equal moves and undoing
SpecTurns == Init /\ [][NextTurns]_vars

(***************************************************************************)
(* Properties of the engine: C1, C2 under SpecTurns, the others under Spec. *)
(***************************************************************************)
\* the last successful step of the history
LastStep == hist[Len(hist)]

\* the cube every face i of which holds colour i in every cell
Canonical(c) ==
  \A i \in ColorIndices : \A r \in 0..(dim - 1) : \A col \in 0..(dim - 1) : c[i][r][col] = i

\* number of cells of colour k in the cube c
CountColor(c, k) ==
  Cardinality({ cell \in ColorIndices \X (0..(dim - 1)) \X (0..(dim - 1)) :
                  c[cell[1]][cell[2]][cell[3]] = k })

\* C1: Round-trip. Whenever the engine has stepped a legal move m and then
\* m.get_inverse_action(), every cell of every face is what it was before m.
C1_RoundTrip ==
  (Len(hist) >= 2 /\ LastStep.move = get_inverse_action(hist[Len(hist) - 1].move))
     => cube = hist[Len(hist) - 1].pre

\* the engine stepped a move and then its inverse from a state that was not
\* the solved one, and is back in that state
C1_Witness ==
  /\ Len(hist) >= 3
  /\ LastStep.move = get_inverse_action(hist[Len(hist) - 1].move)
  /\ hist[Len(hist) - 1].pre # _construct_cube(dim)
  /\ LastStep.pre # hist[Len(hist) - 1].pre
  /\ cube = hist[Len(hist) - 1].pre

\* C2: Closure under full rotation. Whenever the last four steps of the engine
\* were the same move (same face, same direction), the whole cube is what it
\* was before the first of the four.
C2_FourTurns ==
  RunLength(hist) >= 4 => cube = hist[Len(hist) - 3].pre

\* four equal steps in a row from a state that was not the solved one
C2_Witness ==
  /\ RunLength(hist) = 4
  /\ Len(hist) > 4
  /\ hist[Len(hist) - 3].pre # _construct_cube(dim)
  /\ LastStep.pre # hist[Len(hist) - 3].pre
  /\ cube = hist[Len(hist) - 3].pre

\* C3: Colour conservation. In every state reached by step, shuffle_cube and
\* reset calls each colour occurs exactly dim*dim times over the six faces.
C3_ColourConservation ==
  \A k \in ColorIndices : CountColor(cube, k) = dim * dim

\* a cube that was stepped after a shuffle, is not solved and holds every
\* colour dim*dim times
C3_Witness ==
  /\ moves >= 2
  /\ Len(hist) = 1
  /\ last.op = "step"
  /\ ~ Canonical(cube)
  /\ \A k \in ColorIndices : CountColor(cube, k) = dim * dim

\* C4: Solved predicate. The engine as constructed (no state supplied, no
\* shuffle) is solved, and for dim >= 2 the state one step away from the
\* solved state is not solved.
C4_SolvedPredicate ==
  /\ moves = 0 => is_resolved(cube)
  /\ (dim >= 2 /\ Len(hist) = 1 /\ hist[1].pre = _construct_cube(dim))
       => ~ is_resolved(cube)

\* one step was made from the solved state of a cube with dim >= 2
C4_Witness ==
  /\ dim >= 2
  /\ Len(hist) = 1
  /\ hist[1].pre = _construct_cube(dim)
  /\ last.op = "step" /\ ~ last.raised
  /\ ~ is_resolved(cube)

\* C5: Reward and solved flag agree with the state. After a step the reward is
\* +1 and done is true exactly when every cell of every face i holds colour i;
\* otherwise the reward is -1 and done is false.
C5_RewardAgrees ==
  (last.op = "step" /\ ~ last.raised) =>
     /\ last.reward \in {1, -1}
     /\ Canonical(cube) => (last.reward = 1 /\ last.done)
     /\ ~ Canonical(cube) => (last.reward = -1 /\ ~ last.done)

\* a step that brought the cube back to the solved state and returned +1
C5_Witness ==
  /\ last.op = "step" /\ ~ last.raised
  /\ Len(hist) >= 2
  /\ Canonical(cube)
  /\ last.reward = 1 /\ last.done

\* C8: Counter is 0 after shuffling. After shuffle_cube(n) returns, for every
\* n >= 0, the move counter is 0.
C8_CounterZeroAfterShuffle ==
  last.op = "shuffle_cube" => counter = 0

\* C9: reset restores a clean engine. After reset(shuffle=False) the cube is
\* the solved one and the counter is 0; after reset(shuffle=True) the counter
\* is 0.
C9_ResetClean ==
  last.op = "reset" =>
     /\ ~ last.shuffle => (Canonical(cube) /\ counter = 0)
     /\ last.shuffle => counter = 0

(***************************************************************************)
(* Properties of move inference, checked under SpecInfer.                  *)
(***************************************************************************)
\* C6: Inference correctness. For the solved state s0 and a legal move m,
\* get_action_from_two_states(s0, s1), with s1 a copy of the state one step m
\* away from s0, returns a move equal to m.
C6_InferenceCorrect ==
  (inf.called /\ inf.state_1 = _construct_cube(dim) /\ Len(inf.between) = 1)
     => /\ inf.raised = "none"
        /\ inf.found
        /\ ActionEq(inf.move, inf.between[1])

\* C7: Inference never raises. For two well-shaped states of the same dim,
\* get_action_from_two_states returns a move or not-found, and not-found when
\* no legal move maps the first state to the second.
C7_InferenceNeverRaises ==
  inf.called =>
     /\ inf.raised = "none"
     /\ (\A m \in LegalActions : _rotate(inf.state_1, m) # inf.state_2)
          => (~ inf.found /\ inf.move = NoMove)

(***************************************************************************)
(* Properties of move construction, checked under SpecAction.              *)
(***************************************************************************)
\* a code that is exactly a configured face symbol followed by a configured
\* direction symbol
WellFormedCode(code) ==
  /\ code.type = "str"
  /\ Len(code.chars) = 2
  /\ \E k \in 1..Len(sides) : sides[k] = code.chars[1]
  /\ \E k \in 1..Len(directions) : directions[k] = code.chars[2]

\* a construction from a code that is given and is not well formed
BadCodeGiven == made.called /\ made.code.type # "NoneType" /\ ~ WellFormedCode(made.code)

Malformed(b) ==
  ~ (/\ b.type = "ndarray"
     /\ \/ b.shape = <<6, b.dim, b.dim>>
        \/ b.shape = <<6, b.dim, b.dim, 6>>)

\* the engine holds a cube of six dim x dim grids
WellFormedCube ==
  /\ cube # NoCube
  /\ DOMAIN cube = 0..5
  /\ \A f \in 0..5 :
       /\ DOMAIN cube[f] = 0..(dim - 1)
       /\ \A r \in 0..(dim - 1) : DOMAIN cube[f][r] = 0..(dim - 1)

\* C11: Malformed state fails construction. Constructing a RubiksCube with a
\* supplied state of a shape that is neither (6, dim, dim) nor
\* (6, dim, dim, 6) ends in an error, and no engine exists without a
\* well-formed cube.
C11_MalformedFails ==
  /\ (built.called /\ Malformed(built)) => built.raised # "none"
  /\ WellFormedCube

(***************************************************************************)
(* Properties of get_inverse_action, under SpecInverse.                    *)
(***************************************************************************)
\* C12: Inverse move. For every legal move m, m.get_inverse_action() is the
\* move on the same face in the other direction, and the inverse of the
\* inverse equals m.
C12_InverseMove ==
  inv.called =>
    /\ inv.object.action # NoAction
    /\ inv.object.action.side = inv.of.action.side
    /\ inv.object.action.direction \in Range(directions) \ {inv.of.action.direction}
    /\ ActionEq(inv.twice, inv.of)

C12_Witness ==
  /\ inv.called
  /\ inv.of.action = Action("U", "i")
  /\ inv.object.action = Action("U", "d")
  /\ inv.twice.action = Action("U", "i")

(***************************************************************************)
(* Properties of the strip cycle of a move, under Spec.  They are stated   *)
(* on the last successful step: LastStep.pre is the cube before it, cube   *)
(* the cube after it.                                                      *)
(***************************************************************************)
\* the neighbour list of a move, in the order the move walks it
WalkSides(action) ==
  IF action.direction = "i" THEN ReverseSeq(connexions[action.side].sides)
  ELSE connexions[action.side].sides

\* the edges of the neighbour list, in the order the move walks it
WalkEdges(action) ==
  IF action.direction = "i" THEN ReverseSeq(connexions[action.side].edges)
  ELSE connexions[action.side].edges

\* the strip of face b after the move equals the strip of face a before it,
\* reversed when the pair of edges is flagged
Transferred(action, pre, post, idx) ==
  LET cs == WalkSides(action)
      ce == WalkEdges(action)
      from == GetEdge(pre[index_sides(cs[idx])], ce[idx])
      to == GetEdge(post[index_sides(cs[idx + 1])], ce[idx + 1])
  IN  to = IF <<ce[idx], ce[idx + 1]>> \in connexions[action.side].inversions
           THEN ReverseArr(from) ELSE from

\* C13: Single 4-cycle of edge strips. After a step on face f each of the 4
\* neighbour strips holds the content (reversed when the pair is flagged)
\* that the preceding neighbour's strip held before the move, the transfer
\* from the last neighbour back to the first included; exactly 4 strips
\* change owner, none is duplicated or dropped.
C13_StripCycle ==
  (Len(hist) >= 1 /\ last.op = "step" /\ ~ last.raised) =>
    LET action == LastStep.move.action
        cs == WalkSides(action)
        ce == WalkEdges(action)
        sent == { <<cs[idx], ce[idx]>> : idx \in 1..(Len(cs) - 1) }
        received == { <<cs[idx + 1], ce[idx + 1]>> : idx \in 1..(Len(cs) - 1) }
    IN  /\ Cardinality(Range(cs)) = 4
        /\ Cardinality(sent) = 4
        /\ received = sent
        /\ cs[Len(cs)] = cs[1]
        /\ \A idx \in 1..(Len(cs) - 1) : Transferred(action, LastStep.pre, cube, idx)

\* a step whose flagged pair carried a strip that reads differently reversed
C13_Witness ==
  /\ Len(hist) >= 1 /\ last.op = "step" /\ ~ last.raised
  /\ LET action == LastStep.move.action
         cs == WalkSides(action)
         ce == WalkEdges(action)
     IN  /\ \E idx \in 1..(Len(cs) - 1) :
               /\ <<ce[idx], ce[idx + 1]>> \in connexions[action.side].inversions
               /\ LET from == GetEdge(LastStep.pre[index_sides(cs[idx])], ce[idx])
                  IN  from # ReverseArr(from)
         /\ \A idx \in 1..(Len(cs) - 1) : Transferred(action, LastStep.pre, cube, idx)

(***************************************************************************)
(* Properties of the turned face's grid, under Spec.                       *)
(***************************************************************************)
\* the grid of the turned face before and after the last step
TurnedBefore == LastStep.pre[index_sides(LastStep.move.action.side)]

TurnedAfter == cube[index_sides(LastStep.move.action.side)]

\* the cell at row r, column c went to row c, column dim-1-r
QuarterRight(before, after) ==
  \A r \in 0..(dim - 1), c \in 0..(dim - 1) : after[c][dim - 1 - r] = before[r][c]

\* the cell at row r, column c went to row dim-1-c, column r
QuarterLeft(before, after) ==
  \A r \in 0..(dim - 1), c \in 0..(dim - 1) : after[dim - 1 - c][r] = before[r][c]

\* C14 as stated: Face rotation sense. A step on face f with direction 'd'
\* sends the cell at row r, column c of f's grid to row c, column dim-1-r;
\* 'i' sends it to row dim-1-c, column r.
C14_FaceRotationAsStated ==
  (Len(hist) >= 1 /\ last.op = "step" /\ ~ last.raised) =>
    IF LastStep.move.action.direction = "d"
    THEN QuarterRight(TurnedBefore, TurnedAfter)
    ELSE QuarterLeft(TurnedBefore, TurnedAfter)

\* C14: Face rotation sense. A step on face f with direction 'd' sends the
\* cell at row r, column c of f's grid to row dim-1-c, column r (np.rot90
\* with k=1); 'i' sends it to row c, column dim-1-r (k=3).
C14_FaceRotation ==
  (Len(hist) >= 1 /\ last.op = "step" /\ ~ last.raised) =>
    IF LastStep.move.action.direction = "d"
    THEN QuarterLeft(TurnedBefore, TurnedAfter)
    ELSE QuarterRight(TurnedBefore, TurnedAfter)

\* a 'd' step on a face whose grid shows the sense of the turn
C14_Witness ==
  /\ Len(hist) >= 1 /\ last.op = "step" /\ ~ last.raised
  /\ LastStep.move.action.direction = "d"
  /\ QuarterLeft(TurnedBefore, TurnedAfter)
  /\ ~ QuarterRight(TurnedBefore, TurnedAfter)

(***************************************************************************)
(* Properties of the move counter, under Spec.                             *)
(***************************************************************************)
\* a transition that is a successful step: it extends the history
SteppedOnce == Len(hist') = Len(hist) + 1

\* only steps were made since the construction of the engine
OnlySteps == moves = Len(hist)

\* C15: Counter counts moves. Every successful step increases the counter by
\* exactly 1; after k consecutive steps following a construction the counter
\* equals k; the counter never decreases except through shuffle_cube or reset.
C15_CounterCountsMoves ==
  /\ [][ /\ SteppedOnce => counter' = counter + 1
         /\ counter' < counter => last'.op \in {"shuffle_cube", "reset"} ]_vars
  /\ [](OnlySteps => counter = Len(hist))

\* two steps after the construction
C15_Witness ==
  /\ OnlySteps
  /\ Len(hist) = 2
  /\ counter = 2
  /\ last.op = "step" /\ ~ last.raised

(***************************************************************************)
(* The frame of a move, under Spec.                                        *)
(***************************************************************************)
\* the faces next to the turned face
Neighbours(side) == Range(connexions[side].sides)

\* the edge of neighbour g the table names for turns of side
ConfiguredEdge(side, g) ==
  connexions[side].edges[CHOOSE k \in 1..Len(connexions[side].sides) :
                           connexions[side].sides[k] = g]

\* the cell at row r, column c lies on the edge of a dim x dim grid
OnEdge(edge, r, c) ==
  \/ edge = "r" /\ c = dim - 1
  \/ edge = "l" /\ c = 0
  \/ edge = "u" /\ r = 0
  \/ edge = "d" /\ r = dim - 1

\* the cells a turn of side may change: the turned face and the configured
\* strip of each neighbour
MayChange(side, g, r, c) ==
  \/ g = side
  \/ g \in Neighbours(side) /\ OnEdge(ConfiguredEdge(side, g), r, c)

\* C16: Frame of a move. A step on face f changes only f's grid and the one
\* configured edge strip of each neighbour; the cells of the opposite face
\* and the cells of the neighbours outside that strip are unchanged.
C16_Frame ==
  (Len(hist) >= 1 /\ last.op = "step" /\ ~ last.raised) =>
    \A g \in Range(sides), r \in 0..(dim - 1), c \in 0..(dim - 1) :
      ~ MayChange(LastStep.move.action.side, g, r, c) =>
        cube[index_sides(g)][r][c] = LastStep.pre[index_sides(g)][r][c]

\* a step that changed a neighbour which has cells outside its strip
C16_Witness ==
  /\ Len(hist) >= 1 /\ last.op = "step" /\ ~ last.raised
  /\ dim >= 2
  /\ \E g \in Neighbours(LastStep.move.action.side) :
       /\ cube[index_sides(g)] # LastStep.pre[index_sides(g)]
       /\ \E r \in 0..(dim - 1), c \in 0..(dim - 1) :
            ~ MayChange(LastStep.move.action.side, g, r, c)
  /\ \A g \in Range(sides), r \in 0..(dim - 1), c \in 0..(dim - 1) :
       ~ MayChange(LastStep.move.action.side, g, r, c) =>
         cube[index_sides(g)][r][c] = LastStep.pre[index_sides(g)][r][c]

(***************************************************************************)
(* Rejected steps, under Spec.                                             *)
(***************************************************************************)
\* C17: An invalid move never mutates the engine. A step with a move object
\* whose action is absent, or with a value that is not a move, is rejected
\* before any rotation: the cube and the counter are what they were.
C17_RejectedStepChangesNothing ==
  [][ (last'.op = "step" /\ last'.raised) =>
        (cube' = cube /\ counter' = counter /\ hist' = hist) ]_vars

\* a rejected step on an engine that has made a move
C17_Witness ==
  /\ last.op = "step" /\ last.raised
  /\ Len(hist) >= 1
  /\ counter = Len(hist)
  /\ cube = _rotate(LastStep.pre, LastStep.move.action)
  /\ cube # _construct_cube(dim)

(***************************************************************************)
(* The arrays of move inference, under SpecProbe.                          *)
(***************************************************************************)
\* C18: Inference is side-effect free on inputs. get_action_from_two_states
\* probes each candidate on a fresh copy: when it is over both supplied
\* states hold the values they held before, and each candidate was applied
\* to the original state_1, not to the result of an earlier candidate.
C18_InferenceKeepsInputs ==
  inf.called =>
    /\ inf.after_1 = inf.state_1
    /\ inf.after_2 = inf.state_2
    /\ inf.raised = "none" =>
         /\ inf.rubiks_1 = inf.state_1
         /\ inf.found => _rotate(inf.state_1, inf.move.action) = inf.state_2

\* an inference that probed and turned several copies before it found the move
C18_Witness ==
  /\ inf.called
  /\ inf.raised = "none"
  /\ inf.found
  /\ inf.move.action = Action("U", "i")
  /\ inf.state_1 # inf.state_2
  /\ inf.after_1 = inf.state_1
  /\ inf.after_2 = inf.state_2

(***************************************************************************)
(* The twelve moves on one state, under SpecStep.                          *)
(***************************************************************************)
\* the states the legal moves produce from c
Successors(c) == { _rotate(c, m) : m \in LegalActions }

\* no two legal moves produce the same state from c
Injective(c) == Cardinality(Successors(c)) = Cardinality(LegalActions)

\* C19 as stated: Distinct moves give distinct states. For every dim >= 1 and
\* every reachable state, any two different legal moves applied to it
\* produce different states.
C19_DistinctMovesAsStated == Injective(cube)

\* C19: Distinct moves give distinct states. For every dim >= 2 and every
\* reachable state, any two different legal moves applied to it produce
\* different states, so at most one candidate of move inference can match.
C19_DistinctMoves == dim >= 2 => Injective(cube)

\* a state two steps from solved, with twelve different successors
C19_Witness ==
  /\ dim >= 2
  /\ Len(hist) = 2
  /\ cube # _construct_cube(dim)
  /\ Cardinality(Successors(cube)) = 12

====
